---------------------------- MODULE Spec2Model ----------------------------
(***************************************************************************)
(* NEC infrared sender (tinygo drivers, package irremote / irprotocol).    *)
(*                                                                         *)
(* Two parts are modelled:                                                 *)
(*   - the codec helpers SplitRawNECData, MakeRawNECData, SplitNECAddress, *)
(*     MakeNECAddress, as operators over bytes and words;                  *)
(*   - SenderDevice: the foreground caller (SendNEC, SendNECRawCode,       *)
(*     SendNECRawBytes, SendNECRepeat, StopNECRepeats) and the goroutines  *)
(*     SendNEC starts for auto-repeat, one action per statement that reads *)
(*     or writes shared state (ir.chRpt, the channel, the PWM) or sleeps.  *)
(*                                                                         *)
(* Representation.                                                         *)
(*   byte    a number in 0..255; ^b is 255 - b.                            *)
(*   uint16  a number in 0..65535.                                         *)
(*   uint32  a tuple of four bytes <<b0, b1, b2, b3>>, least significant   *)
(*           first (the model checker's integers are signed 32 bit, so a   *)
(*           raw code such as 0xFF00FF00 does not fit one integer).        *)
(*           Hex32(0xFF, 0x00, 0xFF, 0x00) writes 0xFF00FF00.              *)
(*   time    time.Duration in nanoseconds, as in the source.               *)
(*   chRpt   the field ir.chRpt together with the state of the channel it  *)
(*           refers to: "nil", "open" or "closed".  No goroutine keeps a   *)
(*           copy of the channel: every use evaluates the field again, so  *)
(*           only the channel the field refers to can be observed.         *)
(***************************************************************************)
EXTENDS Integers, Sequences, FiniteSets, Bags, TLC

VARIABLES
    codec,      \* the last codec helper call: its inputs and results
    sessions,   \* how many SendNEC calls with autoRepeat the caller has made
    config,     \* SenderConfig.ModulationDutyCycle given to NewSender
                \* (0, the zero value, before NewSender is called)
    pwmDC,      \* SenderDevice.pwmDC
    chRpt,      \* SenderDevice.chRpt and the channel's state
    pwm,        \* <<v>>: the last value handed to PWM.Set; <<>> before any
    fg,         \* the foreground caller: position and locals of its call
    events,     \* marks and spaces the foreground call has completed
    ret,        \* what the last foreground call returned (-1: nothing yet)
    bg,         \* the auto-repeat goroutines that have not ended: a bag
    cancelled,  \* history: a cancel has returned and no session started since
    panicked    \* the program has panicked (close of a nil or closed channel)

vars == <<codec, sessions, config, pwmDC, chRpt, pwm, fg, events, ret, bg, cancelled, panicked>>

senderVars == <<sessions, config, pwmDC, chRpt, pwm, fg, events, ret, bg, cancelled, panicked>>

---------------------------------------------------------------------------
(* Bounds of the model *)

\* how many SendNEC calls with autoRepeat the caller makes in a behaviour;
\* the sender accepts every call, and at most this many goroutines exist
MaxSessions == 2

---------------------------------------------------------------------------
(* Bytes and words *)

Bytes == 0..255

\* ^b for a byte
Not8(b) == 255 - b

RECURSIVE And(_, _)
\* x & y on non-negative integers
And(x, y) ==
    IF x = 0 \/ y = 0 THEN 0
    ELSE (x % 2) * (y % 2) + 2 * And(x \div 2, y \div 2)

RECURSIVE Or(_, _)
\* x | y on non-negative integers
Or(x, y) ==
    IF x = 0 THEN y
    ELSE IF y = 0 THEN x
    ELSE (IF x % 2 = 1 \/ y % 2 = 1 THEN 1 ELSE 0) + 2 * Or(x \div 2, y \div 2)

\* uint32(b) for a byte b
U32(b) == <<b, 0, 0, 0>>

\* the uint32 written 0x b3 b2 b1 b0
Hex32(b3, b2, b1, b0) == <<b0, b1, b2, b3>>

\* x << n on uint32, n a multiple of 8 (the only shifts the source uses)
Shl32(x, n) ==
    [j \in 1..4 |-> IF j - (n \div 8) >= 1 THEN x[j - (n \div 8)] ELSE 0]

\* x >> n on uint32, n a multiple of 8
Shr32(x, n) ==
    [j \in 1..4 |-> IF j + (n \div 8) <= 4 THEN x[j + (n \div 8)] ELSE 0]

\* x & y and x | y on uint32
And32(x, y) == [j \in 1..4 |-> And(x[j], y[j])]

Or32(x, y) == [j \in 1..4 |-> Or(x[j], y[j])]

\* byte(x) for a uint32 x: its low byte
ByteOf32(x) == x[1]

---------------------------------------------------------------------------
(* Protocol constants *)

nec_unit == 562500

nec_lead_mark == nec_unit * 16

nec_lead_space == nec_unit * 8

nec_repeat_space == nec_unit * 4

nec_bit_mark == nec_unit

nec_bit_0_space == nec_unit

nec_bit_1_space == nec_unit * 3

nec_trail_mark == nec_unit

nec_repeat_period == nec_unit * 192

---------------------------------------------------------------------------
(* Codec helpers *)

\* MakeNECAddress without the 8-bit canonicalisation
MakeNECAddress_NoCollapse(addrLow, addrHigh) ==
    Or((addrHigh * 256) % 65536, addrLow)

MakeNECAddress(addrLow, addrHigh) ==
    IF addrHigh = Not8(addrLow)
    THEN addrLow
    ELSE Or((addrHigh * 256) % 65536, addrLow)

SplitNECAddress(address) ==
    LET addrLow  == And(address, 255)
        addrHigh == And(address, 65280) \div 256
    IN  [addrLow  |-> addrLow,
         addrHigh |-> IF addrHigh = 0 THEN Not8(addrLow) ELSE addrHigh]

\* SplitRawNECData whose check compares the command with the inverse itself
SplitRawNECData_NoInvert(data) ==
    LET addrLow  == ByteOf32(And32(data, Hex32(0, 0, 0, 255)))
        addrHigh == ByteOf32(Shr32(And32(data, Hex32(0, 0, 255, 0)), 8))
        command  == ByteOf32(Shr32(And32(data, Hex32(0, 255, 0, 0)), 16))
        invCmd   == ByteOf32(Shr32(And32(data, Hex32(255, 0, 0, 0)), 24))
    IN  [valid   |-> ~(command # invCmd),
         address |-> MakeNECAddress(addrLow, addrHigh),
         command |-> command]

SplitRawNECData(data) ==
    LET addrLow  == ByteOf32(And32(data, Hex32(0, 0, 0, 255)))
        addrHigh == ByteOf32(Shr32(And32(data, Hex32(0, 0, 255, 0)), 8))
        command  == ByteOf32(Shr32(And32(data, Hex32(0, 255, 0, 0)), 16))
        invCmd   == ByteOf32(Shr32(And32(data, Hex32(255, 0, 0, 0)), 24))
    IN  [valid   |-> ~(command # Not8(invCmd)),
         address |-> MakeNECAddress(addrLow, addrHigh),
         command |-> command]

\* MakeRawNECData with the command and its inverse in each other's place
MakeRawNECData_Swapped(address, command) ==
    LET s == SplitNECAddress(address)
    IN  Or32(Or32(Or32(Shl32(U32(command), 24),
                       Shl32(U32(Not8(command)), 16)),
                  Shl32(U32(s.addrHigh), 8)),
             U32(s.addrLow))

MakeRawNECData(address, command) ==
    LET s == SplitNECAddress(address)
    IN  Or32(Or32(Or32(Shl32(U32(Not8(command)), 24),
                       Shl32(U32(command), 16)),
                  Shl32(U32(s.addrHigh), 8)),
             U32(s.addrLow))

---------------------------------------------------------------------------
(* The codec helpers as operations: one call, from the initial state,      *)
(* records its inputs and results                                          *)

NoCodecCall == [op |-> "none"]

\* code := MakeRawNECData(address, command), then SplitRawNECData(code)
DoMakeRawNECData(address, command) ==
    /\ codec = NoCodecCall
    /\ codec' = [op      |-> "MakeRawNECData",
                 address |-> address,
                 command |-> command,
                 code    |-> MakeRawNECData(address, command),
                 back    |-> SplitRawNECData(MakeRawNECData(address, command))]
    /\ UNCHANGED senderVars

\* SplitRawNECData(data)
DoSplitRawNECData(data) ==
    /\ codec = NoCodecCall
    /\ codec' = [op   |-> "SplitRawNECData",
                 data |-> data,
                 out  |-> SplitRawNECData(data)]
    /\ UNCHANGED senderVars

---------------------------------------------------------------------------
(* SenderDevice: construction *)

\* PWM.Top() of the PWM the sender is given
PwmTop == 1000

\* NewSender with the upper limit of the range check left out
NewSender_NoUpperLimit(dutyCycle) ==
    IF dutyCycle < 1 THEN 33 ELSE dutyCycle

\* the duty cycle NewSender stores for a configured ModulationDutyCycle
NewSender(dutyCycle) ==
    IF dutyCycle < 1 \/ dutyCycle > 100 THEN 33 ELSE dutyCycle

\* configured duty cycles the senders of the model are built with
DutyInputs == {0}

FgIdle ==
    [pc    |-> "idle",
     op    |-> "none",
     data  |-> <<0, 0, 0, 0>>,
     bytes |-> <<0, 0, 0, 0>>,
     rep   |-> FALSE,
     k     |-> 1,
     i     |-> 0,
     tx    |-> 0]

Init ==
    /\ codec = NoCodecCall
    /\ sessions = 0
    /\ config \in DutyInputs
    /\ pwmDC = NewSender(config)
    /\ chRpt = "nil"
    /\ pwm = <<>>
    /\ fg = FgIdle
    /\ events = <<>>
    /\ ret = -1
    /\ bg = EmptyBag
    /\ cancelled = FALSE
    /\ panicked = FALSE

\* the fields before NewSender has run: Go zero values, nothing transmitted
InitNew ==
    /\ codec = NoCodecCall
    /\ sessions = 0
    /\ config = 0
    /\ pwmDC = 0
    /\ chRpt = "nil"
    /\ pwm = <<>>
    /\ fg = FgIdle
    /\ events = <<>>
    /\ ret = -1
    /\ bg = EmptyBag
    /\ cancelled = FALSE
    /\ panicked = FALSE

\* NewSender(config) with config.ModulationDutyCycle = dutyCycle: the
\* constructor has no error result and stores the checked duty cycle
CallNewSender(dutyCycle) ==
    /\ fg.pc = "idle"
    /\ config' = dutyCycle
    /\ pwmDC' = NewSender(dutyCycle)
    /\ UNCHANGED <<codec, sessions, chRpt, pwm, fg, events, ret, bg, cancelled,
                   panicked>>

---------------------------------------------------------------------------
(* mark, space and sleep *)

\* the value mark() hands to PWM.Set while the carrier is on
DutyValue == (PwmTop * pwmDC) \div 100

\* how long time.Sleep(d) takes: it returns at once for d <= 0
Slept(d) == IF d > 0 THEN d ELSE 0

Mark(duration) == [kind |-> "mark", dur |-> duration]

Space(duration) == [kind |-> "space", dur |-> duration]

RECURSIVE SumDur(_)
\* the time a sequence of marks and spaces took: the sum of what was slept
\* in each, added up by halves of the sequence
SumDur(evs) ==
    IF evs = <<>> THEN 0
    ELSE IF Len(evs) = 1 THEN Slept(evs[1].dur)
    ELSE LET h == Len(evs) \div 2
         IN  SumDur(SubSeq(evs, 1, h)) + SumDur(SubSeq(evs, h + 1, Len(evs)))

---------------------------------------------------------------------------
(* SendNECRawBytes: the pieces its loop is made of *)

\* b & (1 << i) != 0, tested from the most significant bit down
BitSet_MsbFirst(b, i) == And(b, 2 ^ (7 - i)) # 0

\* b & mask != 0 for mask = byte(1) << i
BitSet(b, i) == And(b, 2 ^ i) # 0

\* the space after the mark of bit i of byte b
BitSpace(b, i) == IF ~BitSet(b, i) THEN nec_bit_0_space ELSE nec_bit_1_space

\* txDuration without the trail mark
TxDurationBase_NoTrail == nec_lead_mark + nec_lead_space + 32 * nec_bit_mark

\* txDuration as first assigned, before the bits' spaces are added
TxDurationBase ==
    nec_lead_mark + nec_lead_space + 32 * nec_bit_mark + nec_trail_mark

\* SendNECRepeat's return value
RepeatTxDuration == nec_lead_mark + nec_repeat_space + nec_trail_mark

\* a cadence wait that ignores the time already spent transmitting
RepeatWait_FullPeriod(txDuration) == nec_repeat_period

\* the sleep argument with the operands of the subtraction exchanged
RepeatWait_Swapped(txDuration) == txDuration - nec_repeat_period

\* the argument of time.Sleep in the auto-repeat goroutine
RepeatWait(txDuration) == nec_repeat_period - txDuration

---------------------------------------------------------------------------
(* The foreground caller: entering a public method *)

\* SendNEC(address, command, autoRepeat): up to the call of SendNECRawBytes
CallSendNEC(address, command, autoRepeat) ==
    /\ ~panicked
    /\ fg.pc = "idle"
    /\ LET s == SplitNECAddress(address)
       IN  fg' = [FgIdle EXCEPT
                    !.pc    = "wCond",
                    !.op    = "SendNEC",
                    !.bytes = <<s.addrLow, s.addrHigh, command, Not8(command)>>,
                    !.rep   = autoRepeat]
    /\ sessions' = IF autoRepeat THEN sessions + 1 ELSE sessions
    /\ events' = <<>>
    /\ ret' = -1
    /\ UNCHANGED <<codec, config, pwmDC, chRpt, pwm, bg, cancelled, panicked>>

\* SendNECRawCode that transmits whatever the validation says
CallSendNECRawCode_NoCheck(data) ==
    /\ ~panicked
    /\ fg.pc = "idle"
    /\ LET r == SplitRawNECData(data)
           s == SplitNECAddress(r.address)
       IN  fg' = [FgIdle EXCEPT
                    !.pc    = "wCond",
                    !.op    = "SendNECRawCode",
                    !.data  = data,
                    !.bytes = <<s.addrLow, s.addrHigh,
                                r.command, Not8(r.command)>>]
    /\ ret' = -1
    /\ events' = <<>>
    /\ UNCHANGED <<codec, sessions, config, pwmDC, chRpt, pwm, bg, cancelled, panicked>>

\* SendNECRawCode that closes the session channel before it checks the code
CallSendNECRawCode_CancelFirst(data) ==
    /\ ~panicked
    /\ fg.pc = "idle"
    /\ LET r == SplitRawNECData(data)
           s == SplitNECAddress(r.address)
       IN  IF ~r.valid
           THEN /\ fg' = [FgIdle EXCEPT
                            !.op   = "SendNECRawCode",
                            !.data = data]
                /\ ret' = 0
                /\ chRpt' = IF chRpt = "open" THEN "closed" ELSE chRpt
           ELSE /\ fg' = [FgIdle EXCEPT
                            !.pc    = "wCond",
                            !.op    = "SendNECRawCode",
                            !.data  = data,
                            !.bytes = <<s.addrLow, s.addrHigh,
                                        r.command, Not8(r.command)>>]
                /\ ret' = -1
                /\ UNCHANGED chRpt
    /\ events' = <<>>
    /\ UNCHANGED <<codec, sessions, config, pwmDC, pwm, bg, cancelled, panicked>>

\* SendNECRawCode(data): returns 0 at once for an invalid code, otherwise
\* goes on to SendNECRawBytes
CallSendNECRawCode(data) ==
    /\ ~panicked
    /\ fg.pc = "idle"
    /\ LET r == SplitRawNECData(data)
           s == SplitNECAddress(r.address)
       IN  IF ~r.valid
           THEN /\ fg' = [FgIdle EXCEPT
                            !.op   = "SendNECRawCode",
                            !.data = data]
                /\ ret' = 0
           ELSE /\ fg' = [FgIdle EXCEPT
                            !.pc    = "wCond",
                            !.op    = "SendNECRawCode",
                            !.data  = data,
                            !.bytes = <<s.addrLow, s.addrHigh,
                                        r.command, Not8(r.command)>>]
                /\ ret' = -1
    /\ events' = <<>>
    /\ UNCHANGED <<codec, sessions, config, pwmDC, chRpt, pwm, bg, cancelled, panicked>>

\* SendNECRawBytes(addrLow, addrHigh, cmd, invCmd) called directly
CallSendNECRawBytes(addrLow, addrHigh, cmd, invCmd) ==
    /\ ~panicked
    /\ fg.pc = "idle"
    /\ fg' = [FgIdle EXCEPT
                !.pc    = "wCond",
                !.op    = "SendNECRawBytes",
                !.bytes = <<addrLow, addrHigh, cmd, invCmd>>]
    /\ events' = <<>>
    /\ ret' = -1
    /\ UNCHANGED <<codec, sessions, config, pwmDC, chRpt, pwm, bg, cancelled, panicked>>

\* StopNECRepeats()
CallStopNECRepeats ==
    /\ ~panicked
    /\ fg.pc = "idle"
    /\ fg' = [FgIdle EXCEPT !.pc = "wCond", !.op = "StopNECRepeats"]
    /\ events' = <<>>
    /\ ret' = -1
    /\ UNCHANGED <<codec, sessions, config, pwmDC, chRpt, pwm, bg, cancelled, panicked>>

\* SendNECRepeat() called by the foreground caller
CallSendNECRepeat ==
    /\ ~panicked
    /\ fg.pc = "idle"
    /\ fg' = [FgIdle EXCEPT !.pc = "mLeadOn", !.op = "SendNECRepeat"]
    /\ events' = <<>>
    /\ ret' = -1
    /\ UNCHANGED <<codec, sessions, config, pwmDC, chRpt, pwm, bg, cancelled, panicked>>

---------------------------------------------------------------------------
(* waitForAutoRepeatCancel, run by the foreground caller *)

\* the loop entered without its condition: the select runs on a nil field
WaitCond_NoNilCheck ==
    /\ ~panicked
    /\ fg.pc = "wCond"
    /\ fg' = [fg EXCEPT !.pc = "wSelect"]
    /\ UNCHANGED <<codec, sessions, config, pwmDC, chRpt, pwm, events, ret, bg, cancelled,
                   panicked>>

\* for ir.chRpt != nil: the loop condition.  When the field is nil the
\* function returns: StopNECRepeats returns to the caller, SendNECRawBytes
\* goes on to the lead mark.
WaitCond ==
    /\ ~panicked
    /\ fg.pc = "wCond"
    /\ IF chRpt # "nil"
       THEN /\ fg' = [fg EXCEPT !.pc = "wSelect"]
            /\ UNCHANGED cancelled
       ELSE /\ fg' = [fg EXCEPT !.pc = IF fg.op = "StopNECRepeats"
                                       THEN "idle" ELSE "leadOn"]
            /\ cancelled' = TRUE
    /\ UNCHANGED <<codec, sessions, config, pwmDC, chRpt, pwm, events, ret, bg, panicked>>

\* select { case <-ir.chRpt: ... default: ... }: a receive is ready only on
\* a closed channel; on an open channel, and on a nil one, default is taken
WaitSelect ==
    /\ ~panicked
    /\ fg.pc = "wSelect"
    /\ fg' = [fg EXCEPT !.pc = IF chRpt = "closed" THEN "wSleep" ELSE "wClose"]
    /\ UNCHANGED <<codec, sessions, config, pwmDC, chRpt, pwm, events, ret, bg, cancelled,
                   panicked>>

\* a goroutine inside one of its sleeps
InWait(task) == task.pc \in {"initSleep", "rSleep"}

\* a goroutine at the moment the channel is closed: one inside a sleep is
\* noted as having the stop requested during that sleep (req holds no
\* program state; no step is guarded by it)
StopRequested(task) ==
    IF InWait(task) THEN [task EXCEPT !.req = TRUE] ELSE task

\* close(ir.chRpt): panics on a nil channel and on a closed one
WaitClose ==
    /\ ~panicked
    /\ fg.pc = "wClose"
    /\ IF chRpt = "open"
       THEN /\ chRpt' = "closed"
            /\ bg' = BagOfAll(StopRequested, bg)
            /\ fg' = [fg EXCEPT !.pc = "wCond"]
            /\ UNCHANGED panicked
       ELSE /\ panicked' = TRUE
            /\ fg' = [fg EXCEPT !.pc = "panic"]
            /\ UNCHANGED <<chRpt, bg>>
    /\ UNCHANGED <<codec, sessions, config, pwmDC, pwm, events, ret, cancelled>>

\* time.Sleep(nec_unit * 40) after the receive on the closed channel
WaitSleep ==
    /\ ~panicked
    /\ fg.pc = "wSleep"
    /\ fg' = [fg EXCEPT !.pc = "wCond"]
    /\ UNCHANGED <<codec, sessions, config, pwmDC, chRpt, pwm, events, ret, bg, cancelled,
                   panicked>>

---------------------------------------------------------------------------
(* SendNECRawBytes after the cancel step.  A mark is two steps: PWM.Set   *)
(* with the duty value, then the sleep followed by PWM.Set with 0.  A      *)
(* space is one step, its sleep.                                           *)

\* txDuration is initialised; mark(nec_lead_mark) switches the carrier on
LeadMarkOn ==
    /\ ~panicked
    /\ fg.pc = "leadOn"
    /\ pwm' = <<DutyValue>>
    /\ fg' = [fg EXCEPT !.pc = "leadOff", !.tx = TxDurationBase]
    /\ UNCHANGED <<codec, sessions, config, pwmDC, chRpt, events, ret, bg, cancelled, panicked>>

LeadMarkOff ==
    /\ ~panicked
    /\ fg.pc = "leadOff"
    /\ pwm' = <<0>>
    /\ events' = Append(events, Mark(nec_lead_mark))
    /\ fg' = [fg EXCEPT !.pc = "leadSpace"]
    /\ UNCHANGED <<codec, sessions, config, pwmDC, chRpt, ret, bg, cancelled, panicked>>

\* space(nec_lead_space); the loops start at the first byte, bit 0
LeadSpace ==
    /\ ~panicked
    /\ fg.pc = "leadSpace"
    /\ events' = Append(events, Space(nec_lead_space))
    /\ fg' = [fg EXCEPT !.pc = "bitOn", !.k = 1, !.i = 0]
    /\ UNCHANGED <<codec, sessions, config, pwmDC, chRpt, pwm, ret, bg, cancelled, panicked>>

BitMarkOn ==
    /\ ~panicked
    /\ fg.pc = "bitOn"
    /\ pwm' = <<DutyValue>>
    /\ fg' = [fg EXCEPT !.pc = "bitOff"]
    /\ UNCHANGED <<codec, sessions, config, pwmDC, chRpt, events, ret, bg, cancelled, panicked>>

BitMarkOff ==
    /\ ~panicked
    /\ fg.pc = "bitOff"
    /\ pwm' = <<0>>
    /\ events' = Append(events, Mark(nec_bit_mark))
    /\ fg' = [fg EXCEPT !.pc = "bitSpace"]
    /\ UNCHANGED <<codec, sessions, config, pwmDC, chRpt, ret, bg, cancelled, panicked>>

\* the space of bit i of byte k, added to txDuration; then i++, and after
\* bit 7 the next byte, and after the fourth byte the trail mark
BitSpaceStep ==
    /\ ~panicked
    /\ fg.pc = "bitSpace"
    /\ events' = Append(events, Space(BitSpace(fg.bytes[fg.k], fg.i)))
    /\ fg' = [fg EXCEPT
                !.tx = fg.tx + BitSpace(fg.bytes[fg.k], fg.i),
                !.i  = IF fg.i < 7 THEN fg.i + 1 ELSE 0,
                !.k  = IF fg.i < 7 \/ fg.k = 4 THEN fg.k ELSE fg.k + 1,
                !.pc = IF fg.i = 7 /\ fg.k = 4 THEN "trailOn" ELSE "bitOn"]
    /\ UNCHANGED <<codec, sessions, config, pwmDC, chRpt, pwm, ret, bg, cancelled, panicked>>

TrailMarkOn ==
    /\ ~panicked
    /\ fg.pc = "trailOn"
    /\ pwm' = <<DutyValue>>
    /\ fg' = [fg EXCEPT !.pc = "trailOff"]
    /\ UNCHANGED <<codec, sessions, config, pwmDC, chRpt, events, ret, bg, cancelled, panicked>>

\* the trail mark without the PWM.Set(0) that ends it
TrailMarkOff_CarrierLeftOn ==
    /\ ~panicked
    /\ fg.pc = "trailOff"
    /\ events' = Append(events, Mark(nec_trail_mark))
    /\ ret' = fg.tx
    /\ fg' = [fg EXCEPT !.pc = IF fg.op = "SendNEC" /\ fg.rep
                                THEN "mkChan" ELSE "idle"]
    /\ UNCHANGED <<codec, sessions, config, pwmDC, chRpt, pwm, bg, cancelled, panicked>>

\* the trail mark ends and SendNECRawBytes returns txDuration; SendNEC with
\* autoRepeat goes on to start the session, every other caller returns
TrailMarkOff ==
    /\ ~panicked
    /\ fg.pc = "trailOff"
    /\ pwm' = <<0>>
    /\ events' = Append(events, Mark(nec_trail_mark))
    /\ ret' = fg.tx
    /\ fg' = [fg EXCEPT !.pc = IF fg.op = "SendNEC" /\ fg.rep
                                THEN "mkChan" ELSE "idle"]
    /\ UNCHANGED <<codec, sessions, config, pwmDC, chRpt, bg, cancelled, panicked>>

---------------------------------------------------------------------------
(* SendNEC with autoRepeat: the session starts *)

\* ir.chRpt = make(chan int)
MakeChan ==
    /\ ~panicked
    /\ fg.pc = "mkChan"
    /\ chRpt' = "open"
    /\ cancelled' = FALSE
    /\ fg' = [fg EXCEPT !.pc = "spawn"]
    /\ UNCHANGED <<codec, sessions, config, pwmDC, pwm, events, ret, bg, panicked>>

\* go func(irs) {...}(ir): the goroutine starts before its first sleep; it
\* captures dataTxDuration.  A goroutine is [pc, d, t, req]: its position,
\* the duration its next sleep subtracts, the time since the lead mark of
\* the frame before it began, counted over marks, spaces and sleeps, and
\* whether the channel was closed during the sleep it is in or has left
\* for the select it has not yet passed.
Spawn ==
    /\ ~panicked
    /\ fg.pc = "spawn"
    /\ bg' = bg (+) SetToBag({[pc |-> "initSleep", d |-> ret,
                                t |-> SumDur(events), req |-> FALSE]})
    /\ fg' = [fg EXCEPT !.pc = "idle"]
    /\ UNCHANGED <<codec, sessions, config, pwmDC, chRpt, pwm, events, ret, cancelled, panicked>>

---------------------------------------------------------------------------
(* SendNECRepeat called by the foreground caller *)

ManualLeadOn ==
    /\ ~panicked
    /\ fg.pc = "mLeadOn"
    /\ pwm' = <<DutyValue>>
    /\ fg' = [fg EXCEPT !.pc = "mLeadOff"]
    /\ UNCHANGED <<codec, sessions, config, pwmDC, chRpt, events, ret, bg, cancelled, panicked>>

ManualLeadOff ==
    /\ ~panicked
    /\ fg.pc = "mLeadOff"
    /\ pwm' = <<0>>
    /\ events' = Append(events, Mark(nec_lead_mark))
    /\ fg' = [fg EXCEPT !.pc = "mSpace"]
    /\ UNCHANGED <<codec, sessions, config, pwmDC, chRpt, ret, bg, cancelled, panicked>>

ManualSpace ==
    /\ ~panicked
    /\ fg.pc = "mSpace"
    /\ events' = Append(events, Space(nec_repeat_space))
    /\ fg' = [fg EXCEPT !.pc = "mTrailOn"]
    /\ UNCHANGED <<codec, sessions, config, pwmDC, chRpt, pwm, ret, bg, cancelled, panicked>>

ManualTrailOn ==
    /\ ~panicked
    /\ fg.pc = "mTrailOn"
    /\ pwm' = <<DutyValue>>
    /\ fg' = [fg EXCEPT !.pc = "mTrailOff"]
    /\ UNCHANGED <<codec, sessions, config, pwmDC, chRpt, events, ret, bg, cancelled, panicked>>

ManualTrailOff ==
    /\ ~panicked
    /\ fg.pc = "mTrailOff"
    /\ pwm' = <<0>>
    /\ events' = Append(events, Mark(nec_trail_mark))
    /\ ret' = RepeatTxDuration
    /\ fg' = [fg EXCEPT !.pc = "idle"]
    /\ UNCHANGED <<codec, sessions, config, pwmDC, chRpt, bg, cancelled, panicked>>

---------------------------------------------------------------------------
(* An auto-repeat goroutine.  Goroutines have no identity: the ones alive  *)
(* form a bag, and a step replaces one goroutine by its next state.        *)

Tasks == BagToSet(bg)

\* bg with one goroutine `task` moved to the state `next`
Moved(task, next) == (bg (-) SetToBag({task})) (+) SetToBag({next})

\* bg with one goroutine `task` ended
Ended(task) == bg (-) SetToBag({task})

\* time.Sleep(nec_repeat_period - dataTxDuration)
BgInitSleep(task) ==
    /\ ~panicked
    /\ task.pc = "initSleep"
    /\ bg' = Moved(task, [task EXCEPT
                            !.pc = "cond",
                            !.t  = task.t + Slept(RepeatWait(task.d))])
    /\ UNCHANGED <<codec, sessions, config, pwmDC, chRpt, pwm, fg, events, ret, cancelled,
                   panicked>>

\* for irs.chRpt != nil: the loop condition; the goroutine ends when it
\* reads nil
BgCond(task) ==
    /\ ~panicked
    /\ task.pc = "cond"
    /\ bg' = IF chRpt # "nil"
             THEN Moved(task, [task EXCEPT !.pc = "select"])
             ELSE Ended(task)
    /\ UNCHANGED <<codec, sessions, config, pwmDC, chRpt, pwm, fg, events, ret, cancelled,
                   panicked>>

\* select { case <-irs.chRpt: ... default: ... }: the receive is ready only
\* on a closed channel; otherwise default calls SendNECRepeat
BgSelect(task) ==
    /\ ~panicked
    /\ task.pc = "select"
    /\ bg' = Moved(task, IF chRpt = "closed"
                          THEN [task EXCEPT !.pc = "setNil"]
                          ELSE [task EXCEPT !.pc = "rLeadOn", !.req = FALSE])
    /\ UNCHANGED <<codec, sessions, config, pwmDC, chRpt, pwm, fg, events, ret, cancelled,
                   panicked>>

\* irs.chRpt = nil
BgSetNil(task) ==
    /\ ~panicked
    /\ task.pc = "setNil"
    /\ chRpt' = "nil"
    /\ bg' = Moved(task, [task EXCEPT !.pc = "cond", !.req = FALSE])
    /\ UNCHANGED <<codec, sessions, config, pwmDC, pwm, fg, events, ret, cancelled, panicked>>

\* SendNECRepeat: the lead mark switches the carrier on; a repeat frame
\* begins, and t counts from here
BgLeadOn(task) ==
    /\ ~panicked
    /\ task.pc = "rLeadOn"
    /\ pwm' = <<DutyValue>>
    /\ bg' = Moved(task, [task EXCEPT !.pc = "rLeadOff", !.t = 0])
    /\ UNCHANGED <<codec, sessions, config, pwmDC, chRpt, fg, events, ret, cancelled, panicked>>

BgLeadOff(task) ==
    /\ ~panicked
    /\ task.pc = "rLeadOff"
    /\ pwm' = <<0>>
    /\ bg' = Moved(task, [task EXCEPT
                            !.pc = "rSpace",
                            !.t  = task.t + Slept(nec_lead_mark)])
    /\ UNCHANGED <<codec, sessions, config, pwmDC, chRpt, fg, events, ret, cancelled, panicked>>

BgRepeatSpace(task) ==
    /\ ~panicked
    /\ task.pc = "rSpace"
    /\ bg' = Moved(task, [task EXCEPT
                            !.pc = "rTrailOn",
                            !.t  = task.t + Slept(nec_repeat_space)])
    /\ UNCHANGED <<codec, sessions, config, pwmDC, chRpt, pwm, fg, events, ret, cancelled,
                   panicked>>

BgTrailOn(task) ==
    /\ ~panicked
    /\ task.pc = "rTrailOn"
    /\ pwm' = <<DutyValue>>
    /\ bg' = Moved(task, [task EXCEPT !.pc = "rTrailOff"])
    /\ UNCHANGED <<codec, sessions, config, pwmDC, chRpt, fg, events, ret, cancelled, panicked>>

\* the trail mark ends; SendNECRepeat returns repeatTxDuration
BgTrailOff(task) ==
    /\ ~panicked
    /\ task.pc = "rTrailOff"
    /\ pwm' = <<0>>
    /\ bg' = Moved(task, [task EXCEPT
                            !.pc = "rSleep",
                            !.d  = RepeatTxDuration,
                            !.t  = task.t + Slept(nec_trail_mark)])
    /\ UNCHANGED <<codec, sessions, config, pwmDC, chRpt, fg, events, ret, cancelled, panicked>>

\* the sleep as an interruptible wait: a closed channel wakes it at once
BgSleep_Interruptible(task) ==
    /\ ~panicked
    /\ task.pc = "rSleep"
    /\ bg' = Moved(task, [task EXCEPT
                            !.pc = "cond",
                            !.t  = IF chRpt = "closed"
                                   THEN task.t
                                   ELSE task.t + Slept(RepeatWait(task.d))])
    /\ UNCHANGED <<codec, sessions, config, pwmDC, chRpt, pwm, fg, events, ret, cancelled,
                   panicked>>

\* time.Sleep(nec_repeat_period - repeatTxDuration)
BgSleep(task) ==
    /\ ~panicked
    /\ task.pc = "rSleep"
    /\ bg' = Moved(task, [task EXCEPT
                            !.pc = "cond",
                            !.t  = task.t + Slept(RepeatWait(task.d))])
    /\ UNCHANGED <<codec, sessions, config, pwmDC, chRpt, pwm, fg, events, ret, cancelled,
                   panicked>>

---------------------------------------------------------------------------
(* Specifications *)

FgWaitStep == WaitCond \/ WaitSelect \/ WaitClose \/ WaitSleep

FgFrameStep ==
    \/ LeadMarkOn \/ LeadMarkOff \/ LeadSpace
    \/ BitMarkOn \/ BitMarkOff \/ BitSpaceStep
    \/ TrailMarkOn \/ TrailMarkOff

FgSessionStep == MakeChan \/ Spawn

FgManualStep ==
    \/ ManualLeadOn \/ ManualLeadOff \/ ManualSpace
    \/ ManualTrailOn \/ ManualTrailOff

\* Inputs of the concurrent specification: an 8-bit and an extended
\* address, a valid and an invalid raw code, one set of raw bytes
ConcAddrs == {13, 61453}

ConcCmds == {32}

ConcCodes == {Hex32(223, 32, 242, 13), Hex32(32, 32, 242, 13)}

ConcBytes == {<<1, 2, 3, 4>>}

\* The sender: one foreground caller making any sequence of calls, and the
\* goroutines it starts, interleaved in every order
Next ==
    \/ \E a \in ConcAddrs, c \in ConcCmds : CallSendNEC(a, c, FALSE)
    \/ /\ sessions < MaxSessions
       /\ \E a \in ConcAddrs, c \in ConcCmds : CallSendNEC(a, c, TRUE)
    \/ \E data \in ConcCodes : CallSendNECRawCode(data)
    \/ \E b \in ConcBytes : CallSendNECRawBytes(b[1], b[2], b[3], b[4])
    \/ CallStopNECRepeats
    \/ CallSendNECRepeat
    \/ FgWaitStep
    \/ FgFrameStep
    \/ FgSessionStep
    \/ FgManualStep
    \/ \E task \in Tasks : BgInitSleep(task)
    \/ \E task \in Tasks : BgCond(task)
    \/ \E task \in Tasks : BgSelect(task)
    \/ \E task \in Tasks : BgSetNil(task)
    \/ \E task \in Tasks : BgLeadOn(task)
    \/ \E task \in Tasks : BgLeadOff(task)
    \/ \E task \in Tasks : BgRepeatSpace(task)
    \/ \E task \in Tasks : BgTrailOn(task)
    \/ \E task \in Tasks : BgTrailOff(task)
    \/ \E task \in Tasks : BgSleep(task)

Spec == Init /\ [][Next]_vars

\* a step of the foreground caller inside a call it has made
FgStep == FgWaitStep \/ FgFrameStep \/ FgSessionStep \/ FgManualStep

\* a step of some auto-repeat goroutine
BgStep ==
    \E task \in Tasks :
        \/ BgInitSleep(task) \/ BgCond(task) \/ BgSelect(task)
        \/ BgSetNil(task) \/ BgLeadOn(task) \/ BgLeadOff(task)
        \/ BgRepeatSpace(task) \/ BgTrailOn(task) \/ BgTrailOff(task)
        \/ BgSleep(task)

\* Spec under fair scheduling: the Go scheduler runs every runnable
\* goroutine, and every sleep ends, so a caller inside a call and the
\* auto-repeat goroutines keep taking steps; the caller is not obliged to
\* make further calls
SpecFair == Spec /\ WF_vars(FgStep) /\ WF_vars(BgStep)

\* Inputs of the frame specification
FrameByteInputs == {0, 1, 165, 255}

FrameAddrs == {0, 13, 255, 256, 61453, 65024, 62221}

FrameCmds == {0, 32, 223, 255}

FrameCodes ==
    {Hex32(i, c, h, l) : i \in {0, 32, 223, 255}, c \in {0, 32, 223, 255},
                         h \in {0, 242, 240}, l \in {0, 13}}

\* One caller transmitting frames with no auto-repeat: SendNEC without
\* autoRepeat, SendNECRawCode and SendNECRawBytes over many inputs
NextFrame ==
    \/ \E a \in FrameAddrs, c \in FrameCmds : CallSendNEC(a, c, FALSE)
    \/ \E data \in FrameCodes : CallSendNECRawCode(data)
    \/ \E b1 \in FrameByteInputs, b2 \in FrameByteInputs,
          b3 \in FrameByteInputs, b4 \in FrameByteInputs :
            CallSendNECRawBytes(b1, b2, b3, b4)
    \/ WaitCond
    \/ FgFrameStep

SpecFrame == Init /\ [][NextFrame]_vars

\* construction alone: NewSender over configured duty cycles on both sides
\* of the accepted range
DutyConfigs == -60 .. 160

NextNew == \E dutyCycle \in DutyConfigs : CallNewSender(dutyCycle)

SpecNew == InitNew /\ [][NextNew]_vars

\* Inputs of the codec specification
ByteSamples == {0, 1, 13, 32, 223, 240, 254, 255}

CodecAddrs ==
    {lo + 256 * hi : lo \in Bytes, hi \in ByteSamples} \cup
    {lo + 256 * Not8(lo) : lo \in Bytes}

CodecCmds == ByteSamples

\* inverted-command bytes tried with command c: its complement, the
\* complement with one bit flipped, and the samples
InvInputs(c) ==
    {Not8(c)} \cup
    {IF And(Not8(c), 2 ^ n) = 0 THEN Not8(c) + 2 ^ n ELSE Not8(c) - 2 ^ n :
        n \in 0..7} \cup
    ByteSamples

\* The codec helpers applied to inputs drawn from the sets above
MakeCall ==
    /\ codec = NoCodecCall
    /\ \E a \in CodecAddrs, c \in CodecCmds : DoMakeRawNECData(a, c)

SplitCall ==
    /\ codec = NoCodecCall
    /\ \E c \in Bytes :
         \E i \in InvInputs(c), h \in {0, 240, 242}, l \in {13, 255} :
            DoSplitRawNECData(Hex32(i, c, h, l))

NextCodec == MakeCall \/ SplitCall

SpecCodec == Init /\ [][NextCodec]_vars

---------------------------------------------------------------------------
(* Codec claims, checked under SpecCodec *)

\* bit n of byte b, by division
BitAt(b, n) == (b \div (2 ^ n)) % 2

\* bytes x and y differ in exactly one bit
OneBitApart(x, y) == Cardinality({n \in 0..7 : BitAt(x, n) # BitAt(y, n)}) = 1

\* the high byte of address a is the complement of its low byte
HighIsInverse(a) == a \div 256 = 255 - (a % 256)

\* C4: SplitRawNECData(MakeRawNECData(a, c)) = (true, a', c), where a' is
\* a when a <= 0xFF or the high byte of a is not the complement of its low
\* byte, and a & 0xFF when a >= 0x100 and the high byte is the complement
C4_RoundTrip ==
    codec.op = "MakeRawNECData" =>
        /\ codec.back.valid = TRUE
        /\ codec.back.command = codec.command
        /\ codec.back.address =
             IF codec.address >= 256 /\ HighIsInverse(codec.address)
             THEN codec.address % 256
             ELSE codec.address

\* an extended address whose high byte is the complement of its low byte
\* has been encoded and decoded, and came back as its low byte
C4_Witness ==
    /\ codec.op = "MakeRawNECData"
    /\ codec.address = 242 * 256 + 13
    /\ codec.back = [valid |-> TRUE, address |-> 13, command |-> codec.command]

\* C5: SplitRawNECData returns valid = true exactly when byte 2 is the
\* complement of byte 3, whatever the address bytes; so a code whose byte 3
\* is one bit away from the complement of byte 2 (one bit of a valid code's
\* command or inverted command flipped) is invalid
C5_ChecksumValidation ==
    codec.op = "SplitRawNECData" =>
        /\ codec.out.valid = (codec.data[3] = 255 - codec.data[4])
        /\ OneBitApart(codec.data[4], 255 - codec.data[3]) => ~codec.out.valid

\* a valid code with one bit of its inverted command flipped was decoded
C5_Witness ==
    /\ codec.op = "SplitRawNECData"
    /\ codec.data = Hex32(1, 255, 240, 13)
    /\ codec.out.valid = FALSE

\* C6: MakeRawNECData(a, c) = low | high<<8 | c<<16 | (~c & 0xFF)<<24 with
\* low = a & 0xFF and high = ~low when the high byte of a is 0, otherwise
\* the high byte of a; and the four examples of the claim
C6_EncodingLayout ==
    codec.op = "MakeRawNECData" =>
        /\ codec.code[1] = codec.address % 256
        /\ codec.code[2] = IF codec.address \div 256 = 0
                           THEN 255 - (codec.address % 256)
                           ELSE codec.address \div 256
        /\ codec.code[3] = codec.command
        /\ codec.code[4] = 255 - codec.command
        /\ (codec.address = 0 /\ codec.command = 0)
                => codec.code = Hex32(255, 0, 255, 0)
        /\ (codec.address = 255 /\ codec.command = 0)
                => codec.code = Hex32(255, 0, 0, 255)
        /\ (codec.address = 256 /\ codec.command = 0)
                => codec.code = Hex32(255, 0, 1, 0)
        /\ (codec.address = 61453 /\ codec.command = 0)
                => codec.code = Hex32(255, 0, 240, 13)

\* (0xF00D, 0x00) has been encoded as 0xFF00F00D
C6_Witness ==
    /\ codec.op = "MakeRawNECData"
    /\ codec.address = 61453
    /\ codec.command = 0
    /\ codec.code = <<13, 240, 0, 255>>

---------------------------------------------------------------------------
(* Frame claims, checked under SpecFrame *)

\* the call of SendNECRawBytes made by the current public call has returned
FrameReturned ==
    /\ fg.op \in {"SendNEC", "SendNECRawCode", "SendNECRawBytes"}
    /\ fg.pc \in {"idle", "mkChan", "spawn"}
    /\ ret # -1
    /\ ~(fg.op = "SendNECRawCode" /\ events = <<>>)

\* SendNECRawBytes is transmitting: after the cancel step, before it returns
FrameInProgress ==
    fg.pc \in {"leadOn", "leadOff", "leadSpace", "bitOn", "bitOff",
               "bitSpace", "trailOn", "trailOff"}

\* event j (1..67) of the frame of four bytes, from the protocol: lead mark,
\* lead space, 32 times a bit mark and the bit's space, trail mark
ExpectedEvent(bytes, j) ==
    IF j = 1 THEN Mark(nec_unit * 16)
    ELSE IF j = 2 THEN Space(nec_unit * 8)
    ELSE IF j = 67 THEN Mark(nec_unit)
    ELSE IF j % 2 = 1 THEN Mark(nec_unit)
    ELSE LET n == (j - 4) \div 2
         IN  IF BitAt(bytes[(n \div 8) + 1], n % 8) = 0
             THEN Space(nec_unit) ELSE Space(nec_unit * 3)

ExpectedFrame(bytes) == [j \in 1..67 |-> ExpectedEvent(bytes, j)]

\* the number of 1 bits of the four bytes
OneBits(bytes) ==
    Cardinality({n \in 0..31 : BitAt(bytes[(n \div 8) + 1], n % 8) = 1})

\* C7: a SendNECRawBytes call emits lead mark, lead space, then for each
\* byte in the order low, high, cmd, inv and each bit from bit 0 to bit 7 a
\* bit mark and the space of that bit, then the trail mark, and nothing
\* else: while it runs what it has emitted is a prefix of that sequence,
\* and when it returns it has emitted all 67 events, 34 marks and 33 spaces
C7_FrameEventOrder ==
    /\ FrameInProgress =>
        /\ Len(events) <= 67
        /\ \A j \in 1..Len(events) : events[j] = ExpectedEvent(fg.bytes, j)
    /\ FrameReturned =>
        /\ events = ExpectedFrame(fg.bytes)
        /\ Cardinality({j \in 1..Len(events) : events[j].kind = "mark"}) = 34
        /\ Cardinality({j \in 1..Len(events) : events[j].kind = "space"}) = 33
        /\ \A j \in 1..Len(events) :
                events[j].kind = IF j % 2 = 1 THEN "mark" ELSE "space"

\* a frame of bytes that are not bit palindromes has been sent whole
C7_Witness ==
    /\ FrameReturned
    /\ fg.op = "SendNECRawBytes"
    /\ fg.bytes = <<1, 165, 0, 255>>
    /\ Len(events) = 67

\* C8: the duration SendNECRawBytes returns is LEAD_MARK + LEAD_SPACE +
\* 32*BIT_MARK + TRAIL_MARK + n1*BIT_1_SPACE + (32 - n1)*BIT_0_SPACE, n1 the
\* number of 1 bits of the four bytes, and it is the sum of the durations
\* of the marks and spaces the call emitted
C8_DurationFormula ==
    FrameReturned =>
        /\ ret = nec_unit * 16 + nec_unit * 8 + 32 * nec_unit + nec_unit
                 + OneBits(fg.bytes) * (nec_unit * 3)
                 + (32 - OneBits(fg.bytes)) * nec_unit
        /\ ret = SumDur(events)

\* a frame with 13 one bits has returned 89 + 2 * 13 units
C8_Witness ==
    /\ FrameReturned
    /\ fg.bytes = <<1, 165, 0, 255>>
    /\ OneBits(fg.bytes) = 13
    /\ ret = 115 * nec_unit

\* the command byte of a raw code is the complement of its inverted command
CommandCheckOk(data) == data[3] = 255 - data[4]

\* C9: SendNECRawCode with a code that fails the command check returns 0
\* and makes no mark or space call; and it returns 0 in that case only: a
\* code that passes the check yields a strictly positive duration
C9_InvalidCodeNoOp ==
    fg.op = "SendNECRawCode" =>
        /\ ~CommandCheckOk(fg.data) =>
                (fg.pc = "idle" /\ ret = 0 /\ events = <<>>)
        /\ ret = 0 => ~CommandCheckOk(fg.data)
        /\ (CommandCheckOk(fg.data) /\ fg.pc = "idle") => ret > 0

\* SendNECRawCode has returned 0 for a code that fails the command check
C9_Witness ==
    /\ fg.op = "SendNECRawCode"
    /\ fg.data = Hex32(32, 32, 240, 13)
    /\ fg.pc = "idle"
    /\ ret = 0
    /\ events = <<>>

---------------------------------------------------------------------------
(* Auto-repeat claims, checked under Spec *)

\* the foreground caller is between the start of the lead mark and the end
\* of the trail mark of a SendNECRawBytes frame
FgInFrame ==
    fg.pc \in {"leadOff", "leadSpace", "bitOn", "bitOff", "bitSpace",
               "trailOn", "trailOff"}

\* a goroutine is inside a repeat frame: its lead mark has begun and its
\* trail mark has not ended
InRepeatFrame(task) == task.pc \in {"rLeadOff", "rSpace", "rTrailOn", "rTrailOff"}

\* a goroutine is in its initial sleep or inside an iteration of its loop,
\* having read a non-nil ir.chRpt and not observed the channel closed
Looping(task) ==
    task.pc \in {"initSleep", "select", "rLeadOn", "rLeadOff", "rSpace",
                 "rTrailOn", "rTrailOff", "rSleep"}

\* how many goroutines of the bag satisfy Looping
LoopingCount ==
    LET L == {task \in Tasks : Looping(task)}
    IN  BagCardinality([task \in L |-> CopiesIn(task, bg)])

\* C1: once a cancelling call has returned, and until SendNEC with
\* autoRepeat starts a new session, no goroutine begins a repeat frame
C1_NoRepeatAfterCancel ==
    [][cancelled =>
        ~(\E task \in Tasks :
            /\ task.pc = "rLeadOn"
            /\ bg' = Moved(task, [task EXCEPT !.pc = "rLeadOff", !.t = 0]))]_vars

\* C2: while the foreground caller is inside a SendNECRawBytes frame, no
\* goroutine is inside a repeat frame
C2_EmittersExclusive ==
    FgInFrame => \A task \in Tasks : ~InRepeatFrame(task)

\* C3: at most one auto-repeat goroutine is looping
C3_AtMostOneTask == LoopingCount <= 1

\* C10: a goroutine begins each repeat frame exactly REPEAT_PERIOD after
\* the frame before it began (the initial frame for the first repeat, the
\* previous repeat frame after that), counted over marks, spaces and sleeps
C10_RepeatCadence ==
    \A task \in Tasks :
        task.pc \in {"cond", "select", "setNil", "rLeadOn"}
            => task.t = 192 * nec_unit

\* the only goroutine is about to begin a repeat frame that follows an
\* earlier repeat frame, a full period after that one began
C10_Witness ==
    /\ BagCardinality(bg) = 1
    /\ \E task \in Tasks :
            /\ task.pc = "rLeadOn"
            /\ task.d = 21 * nec_unit
            /\ task.t = 192 * nec_unit

---------------------------------------------------------------------------
(* Cancellation claims, checked under Spec *)

\* C12 as the specification states it: a goroutine that had the stop
\* requested during a sleep observes the closed channel before that sleep
\* has run its full length, that is, less than REPEAT_PERIOD after the
\* frame before it began
C12_ObservedBeforeWaitEnds ==
    \A task \in Tasks :
        (task.req /\ task.pc = "setNil") => task.t < nec_repeat_period

\* C12: a goroutine that had the stop requested during a sleep observes the
\* closed channel only at the select after that sleep, when the sleep has
\* run its full length: exactly REPEAT_PERIOD after the frame before began
C12_ObservedAfterFullWait ==
    \A task \in Tasks :
        (task.req /\ task.pc = "setNil") => task.t = nec_repeat_period

\* a goroutine in its sleep after a repeat frame had the stop requested
\* there and has now observed the closed channel
C12_Witness ==
    \E task \in Tasks :
        /\ task.req
        /\ task.pc = "setNil"
        /\ task.d = RepeatTxDuration
        /\ chRpt = "closed"

\* C13: StopNECRepeats with ir.chRpt nil returns at its first reading of the
\* field, closes no channel, emits nothing and leaves the sender as it was;
\* a second StopNECRepeats right after one that returned changes only the
\* caller's position on entry and restores it on return, so the state after
\* two calls is the state after one
C13_StopIdempotent ==
    [][/\ (fg.pc = "idle" /\ fg'.pc = "wCond" /\ fg'.op = "StopNECRepeats") =>
            /\ UNCHANGED <<config, pwmDC, chRpt, pwm, bg, cancelled, panicked>>
            /\ events' = <<>>
            /\ (fg.op = "StopNECRepeats" /\ chRpt = "nil") =>
                    /\ fg' = [fg EXCEPT !.pc = "wCond"]
                    /\ UNCHANGED <<events, ret>>
       /\ (fg.op = "StopNECRepeats" /\ fg.pc = "wCond" /\ chRpt = "nil"
              /\ fg' # fg) =>
            /\ fg' = [fg EXCEPT !.pc = "idle"]
            /\ cancelled'
            /\ UNCHANGED <<config, pwmDC, chRpt, pwm, bg, events, ret,
                           panicked>>]_vars

\* StopNECRepeats has returned on a sender that never started a session and
\* never transmitted
C13_Witness ==
    /\ fg.op = "StopNECRepeats"
    /\ fg.pc = "idle"
    /\ chRpt = "nil"
    /\ bg = EmptyBag
    /\ pwm = <<>>
    /\ events = <<>>
    /\ cancelled

\* the foreground caller is inside the frame of a manual SendNECRepeat
FgInManualFrame == fg.pc \in {"mLeadOff", "mSpace", "mTrailOn", "mTrailOff"}

\* C16: while the foreground caller is inside the frame of a manual
\* SendNECRepeat, no goroutine is inside a repeat frame
C16_ManualRepeatExclusive ==
    FgInManualFrame => \A task \in Tasks : ~InRepeatFrame(task)

\* C17: waitForAutoRepeatCancel closes ir.chRpt only when it holds an open
\* channel: close is never reached with the field nil or the channel
\* already closed
C17_CloseOnlyOpenChannel ==
    /\ ~panicked
    /\ fg.pc # "panic"

\* C18: SendNECRawCode with a code that fails the command check returns
\* without entering the cancel step: ir.chRpt, the goroutines and the PWM
\* output are as they were; a code that passes the check enters the cancel
\* step
C18_InvalidCodeKeepsSession ==
    [][(fg.pc = "idle" /\ fg' # fg /\ fg'.op = "SendNECRawCode") =>
            IF CommandCheckOk(fg'.data)
            THEN fg'.pc = "wCond"
            ELSE /\ fg'.pc = "idle"
                 /\ UNCHANGED <<config, pwmDC, chRpt, pwm, bg, cancelled,
                                panicked>>]_vars

\* SendNECRawCode has returned 0 for an invalid code while the session
\* channel is open and a goroutine is beginning a repeat frame
C18_Witness ==
    /\ fg.op = "SendNECRawCode"
    /\ ~CommandCheckOk(fg.data)
    /\ fg.pc = "idle"
    /\ ret = 0
    /\ chRpt = "open"
    /\ \E task \in Tasks : task.pc = "rLeadOff" /\ task.t = 0

\* a mark is in progress: some PWM.Set with the duty value has not yet been
\* followed by the PWM.Set(0) of the same mark
MarkInProgress ==
    \/ fg.pc \in {"leadOff", "bitOff", "trailOff", "mLeadOff", "mTrailOff"}
    \/ \E task \in Tasks : task.pc \in {"rLeadOff", "rTrailOff"}

\* C20: whenever no mark is in progress, the last value handed to PWM.Set,
\* if there is one, is 0
C20_CarrierOffAtRest ==
    ~MarkInProgress => pwm \in {<<>>, <<0>>}

\* a goroutine is in the sleep after a repeat frame, the caller is idle and
\* the carrier is off
C20_Witness ==
    /\ ~MarkInProgress
    /\ fg.pc = "idle"
    /\ pwm = <<0>>
    /\ \E task \in Tasks : task.pc = "rSleep"

---------------------------------------------------------------------------
(* Frame claims, checked under SpecFrame *)

\* C14: SendNECRawCode with a code that passes the command check hands to
\* SendNECRawBytes the four bytes of the code itself, and MakeRawNECData of
\* the address and command SplitRawNECData decodes is the code again
C14_RawCodeSendsOwnBytes ==
    (fg.op = "SendNECRawCode" /\ CommandCheckOk(fg.data)) =>
        /\ fg.bytes = fg.data
        /\ LET r == SplitRawNECData(fg.data)
           IN  MakeRawNECData(r.address, r.command) = fg.data

\* C19: a data frame lasts 89 units plus 2 for every one bit, between 89
\* and 153 units, a repeat frame lasts 21 units; both are shorter than
\* REPEAT_PERIOD, so the sleep the goroutine computes from either is
\* strictly positive
C19_DurationBounds ==
    /\ FrameReturned =>
            /\ ret = (89 + 2 * OneBits(fg.bytes)) * nec_unit
            /\ ret >= 89 * nec_unit
            /\ ret <= 153 * nec_unit
            /\ ret < nec_repeat_period
            /\ RepeatWait(ret) > 0
    /\ RepeatTxDuration = 21 * nec_unit
    /\ RepeatTxDuration < nec_repeat_period
    /\ RepeatWait(RepeatTxDuration) > 0

\* the frame of four bytes of all ones has returned the longest duration
C19_Witness ==
    /\ FrameReturned
    /\ fg.bytes = <<255, 255, 255, 255>>
    /\ ret = 153 * nec_unit
    /\ RepeatWait(ret) = 39 * nec_unit

---------------------------------------------------------------------------
(* Construction claim, checked under SpecNew *)

\* C15: every NewSender call succeeds and stores a duty cycle in 1..100:
\* the configured one when that lies in 1..100, and 33 otherwise
C15_DutyCycleDefault ==
    [][/\ pwmDC' \in 1..100
       /\ config' \in 1..100 => pwmDC' = config'
       /\ config' \notin 1..100 => pwmDC' = 33]_<<config, pwmDC>>

\* NewSender was given 101, just above the range, and stored 33
C15_Witness ==
    /\ config = 101
    /\ pwmDC = 33

---------------------------------------------------------------------------
(* Termination claim, checked under SpecFair *)

\* the foreground caller is inside waitForAutoRepeatCancel
FgInCancel == fg.pc \in {"wCond", "wSelect", "wClose", "wSleep", "panic"}

\* C11: under fair scheduling every cancel step that has begun returns, and
\* from then on every goroutine alive leaves its loop, after which
\* ir.chRpt is nil and no goroutine remains until a new session starts
C11_CancelTerminates ==
    /\ FgInCancel ~> ~FgInCancel
    /\ (cancelled /\ bg # EmptyBag) ~> (bg = EmptyBag \/ ~cancelled)
    /\ [](cancelled => chRpt = "nil")

=============================================================================
